---- MODULE Spec2Model ----
(***************************************************************************)
(* klogd's loadable-module symbol table (ksym_mod.c): InitMsyms builds    *)
(* the table from the kernel's query_module service, LookupModuleSymbol   *)
(* resolves an address against it.  The process is single threaded: a     *)
(* lookup runs only between two builds.                                   *)
(***************************************************************************)
EXTENDS Integers, Sequences, FiniteSets, TLC

(* ---------------------------------------------------------------------- *)
(* Bounds of the model and constants of the program                       *)
(* ---------------------------------------------------------------------- *)

\* Largest number of modules the kernel reports in one behaviour.
MaxModules == 2

\* Largest number of AddSymbol calls that fail (an allocation fails) in one
\* build.
MaxAddSymbolFailures == 1

\* int modsize = 32;  doubled before the first query
ModSeed == 32

\* int symsize = 128; doubled before the first query
SymSeed == 128

\* mp->module.size * 4096
PageSize == 4096

\* #if LINUX_VERSION_CODE >= 0x20112: from this version on struct Module has
\* the member module_info, and LookupModuleSymbol reads the module's start
\* address from it.
QueryModuleVersion == 131346

\* The kernel versions the program is compiled against: one on each side of
\* the #if.
Versions == { QueryModuleVersion - 1, QueryModuleVersion }

\* (char *) 0
NULL == "(nil)"

\* An indeterminate value: what a read of uninitialised storage yields.
Indet == "(indeterminate)"

(* ---------------------------------------------------------------------- *)
(* The kernel side: what query_module answers                             *)
(* ---------------------------------------------------------------------- *)

\* A symbol entry of QM_SYMBOLS: struct module_symbol { value, name }.
Sym(v, n) == [value |-> v, name |-> n]

\* The modules the kernel may have loaded.  addr/size are what QM_INFO
\* reports, syms what QM_SYMBOLS reports (in the kernel's order, which is
\* not sorted), need the bytes QM_SYMBOLS wants for them, bytes what the
\* module adds to the bytes QM_MODULES wants.  Every symbol lies inside its
\* module and no two modules overlap.
KernelModules ==
  { [name |-> "usb_core", addr |-> 4096,  size |-> 1, bytes |-> 40, need |-> 200,
     syms |-> << Sym(4608, "probe"), Sym(4096, "init") >>],
    [name |-> "dummy",    addr |-> 8192,  size |-> 1, bytes |-> 30, need |-> 0,
     syms |-> << >>],
    [name |-> "loop",     addr |-> 16384, size |-> 2, bytes |-> 70, need |-> 600,
     syms |-> << Sym(18432, "b"), Sym(16384, "a"), Sym(18432, "c") >>],
    [name |-> "one",      addr |-> 28672, size |-> 1, bytes |-> 100, need |-> 300,
     syms |-> << Sym(28928, "x") >>] }

\* Sequences of length n over S without repetition.
RECURSIVE Arrangements(_, _)
Arrangements(S, n) ==
  IF n = 0 THEN { << >> }
  ELSE UNION { { <<x>> \o t : t \in Arrangements(S \ {x}, n - 1) } : x \in S }

\* The module lists QM_MODULES may report: any loaded set, in any order.
ModuleLists == UNION { Arrangements(KernelModules, n) : n \in 0..MaxModules }

\* The bytes QM_MODULES wants for the module list mods.
RECURSIVE ListBytes(_)
ListBytes(mods) == IF mods = << >> THEN 0 ELSE Head(mods).bytes + ListBytes(Tail(mods))

\* The addresses looked up: below the first module, at every module's start
\* and end, at symbols, between two symbols and past the last one.
Addrs ==
  { 4095, 4352, 4608, 4864, 8192, 12288, 16384, 18432, 28928 }

(* ---------------------------------------------------------------------- *)
(* State                                                                  *)
(* ---------------------------------------------------------------------- *)

VARIABLES
  LINUX_VERSION_CODE, \* the version the program was compiled against
  kernel,             \* the modules the kernel has loaded, as QM_MODULES lists them
  num_modules,        \* static int num_modules
  sym_array_modules,  \* struct Module *sym_array_modules: its initialised entries
  have_modules,       \* static int have_modules
  pc,                 \* where the process is
  modsize,            \* InitMsyms: capacity of modbuf
  tmp,                \* InitMsyms: loop index of the module loop
  symsize,            \* AddModule: capacity of symbuf
  i,                  \* AddModule: loop index of the symbol loop
  ret,                \* what the last InitMsyms returned (-1: none has returned)
  attempts,           \* the queries of the latest grow-and-retry loop, in order
  answer,             \* what query_module answered last in the current build
  queries,            \* query_module calls issued by the current build
  failed,             \* the steps of the current build that failed, in order
  dropped,            \* AddSymbol calls of the current build that returned 0
  lookup,             \* the last LookupModuleSymbol call: value, returned name, *sym
  rebuild             \* the current build was started after a build that returned 1

vars == << LINUX_VERSION_CODE, kernel, num_modules, sym_array_modules, have_modules, pc, modsize,
           tmp, symsize, i, ret, attempts, answer, queries, failed, dropped,
           lookup, rebuild >>

\* No LookupModuleSymbol call since the table was last rebuilt.
NoLookup ==
  [called |-> FALSE, value |-> 0, name |-> NULL, size |-> 0, offset |-> 0, indet |-> {}]

Init ==
  /\ LINUX_VERSION_CODE \in Versions
  /\ kernel \in ModuleLists
  /\ num_modules = 0
  /\ sym_array_modules = << >>
  /\ have_modules = 0
  /\ pc = "idle"
  /\ modsize = 0
  /\ tmp = 0
  /\ symsize = 0
  /\ i = 0
  /\ ret = -1
  /\ attempts = << >>
  /\ answer = "none"
  /\ queries = 0
  /\ failed = << >>
  /\ dropped = 0
  /\ lookup = NoLookup
  /\ rebuild = FALSE

(* ---------------------------------------------------------------------- *)
(* The table: struct Module and struct sym_table                          *)
(* ---------------------------------------------------------------------- *)

\* A slot of sym_array that realloc handed out and nothing wrote.
Uninit == [value |-> 0, name |-> Indet]

\* The answer of query_module(symbol, QM_INFO, &...module, ...): the
\* module's start address and its size in pages.
ModuleInfo(km) == [addr |-> km.addr, size |-> km.size]

\* The member module_info of an entry of the table: the table comes from
\* malloc and nothing writes the member (QM_INFO's answer goes to the member
\* module), so its addr is indeterminate.
UnwrittenInfo == [addr |-> 0, written |-> FALSE]

\* The entry AddModule initialises: mp->name = strdup(symbol), num_syms = 0,
\* sym_array = NULL (a NULL sym_array is the empty sequence), module as
\* QM_INFO filled it.  The member module_info exists from version 0x20112
\* on.
NewModule(km) ==
  IF LINUX_VERSION_CODE >= QueryModuleVersion
  THEN [name |-> km.name, module |-> ModuleInfo(km), module_info |-> UnwrittenInfo,
        num_syms |-> 0, sym_array |-> << >>]
  ELSE [name |-> km.name, module |-> ModuleInfo(km), num_syms |-> 0, sym_array |-> << >>]

\* strcpy(name, mp->name); strcat(name, ":"); strcat(name, symbol)
QualifiedName(module, symbol) == module \o ":" \o symbol

\* The first num_syms slots after realloc(mp->sym_array, (num_syms+1) * ...):
\* realloc keeps what the array held; from a NULL array it is fresh storage.
Realloc(mp) ==
  IF Len(mp.sym_array) = mp.num_syms THEN mp.sym_array
  ELSE [k \in 1..mp.num_syms |-> Uninit]

\* mp after AddSymbol(mp, address, symbol); out is the allocation that failed
\* ("realloc": the array, "malloc": the name) or "ok".
AddSymbolTo(mp, address, symbol, out) ==
  CASE out = "realloc" -> [mp EXCEPT !.sym_array = << >>]
    [] out = "malloc"  -> [mp EXCEPT !.sym_array = Realloc(mp)]
    [] OTHER ->
         [mp EXCEPT !.sym_array =
                      Append(Realloc(mp), Sym(address, QualifiedName(mp.name, symbol))),
                    !.num_syms = mp.num_syms + 1]

\* Every counted slot of mp->sym_array exists and was written.
WellFormed(mp) ==
  /\ Len(mp.sym_array) = mp.num_syms
  /\ \A k \in 1..mp.num_syms : mp.sym_array[k] # Uninit

\* symsort: -1, 0 or 1 as sym1->value is below, at or above sym2->value.
symsort(sym1, sym2) ==
  IF sym1.value < sym2.value THEN -1
  ELSE IF sym1.value = sym2.value THEN 0
  ELSE 1

\* arr is in the order symsort asks for.
Sorted(arr) == \A k \in 1..(Len(arr) - 1) : symsort(arr[k], arr[k + 1]) <= 0

\* What qsort(arr, n, sizeof(struct sym_table), symsort) may leave: any
\* ordering of the same entries that symsort accepts (the order of entries
\* that compare equal is unspecified).
Qsort(arr) ==
  { p \in { [k \in 1..Len(arr) |-> arr[f[k]]] : f \in Permutations(1..Len(arr)) } :
      Sorted(p) }

\* Stands for a module whose sort ended the process.
Crash == [name |-> "(crash)", module |-> [addr |-> 0, size |-> 0],
          num_syms |-> 0, sym_array |-> << >>]

\* The outcomes of the sort loop's body for one module: untouched below 2
\* symbols, sorted otherwise.  Sorting an array that is NULL or holds
\* unwritten slots is undefined: the process dies (Crash) or goes on with
\* the array as it is.
SortModule(mp) ==
  IF mp.num_syms < 2 THEN { mp }
  ELSE IF WellFormed(mp) THEN { [mp EXCEPT !.sym_array = p] : p \in Qsort(mp.sym_array) }
  ELSE { mp, Crash }

\* The outcomes of the sort loop over the modules from nmod on.
RECURSIVE SortFrom(_, _)
SortFrom(mods, nmod) ==
  IF nmod > Len(mods) THEN { mods }
  ELSE UNION { SortFrom([mods EXCEPT ![nmod] = mp], nmod + 1)
               : mp \in SortModule(mods[nmod]) }

(* ---------------------------------------------------------------------- *)
(* LookupModuleSymbol                                                     *)
(* ---------------------------------------------------------------------- *)

\* An answer of the per-module body of the lookup loop: the name returned,
\* sym->size, sym->offset, and which of the three are indeterminate.
Answer(name, size, offset, indet) ==
  [name |-> name, size |-> size, offset |-> offset, indet |-> indet]

\* The module does not hold the address: go on with the next one.
NextModule == Answer("(next module)", 0, 0, {})

\* The body read storage that does not exist or was never written: the
\* name, size and offset it yields are all indeterminate.
Garbage == Answer(Indet, 0, 0, { "name", "size", "offset" })

\* The inner for loop: the first nsym (from start on) whose value is above
\* the address, 0 when the loop runs out, -1 when it reads an unwritten
\* slot or a NULL array first.  Slots are numbered from 1 here, from 0 in C.
RECURSIVE ScanSyms(_, _, _)
ScanSyms(mp, nsym, value) ==
  IF nsym > mp.num_syms THEN 0
  ELSE IF nsym > Len(mp.sym_array) \/ mp.sym_array[nsym] = Uninit THEN -1
  ELSE IF mp.sym_array[nsym].value > value THEN nsym
  ELSE ScanSyms(mp, nsym + 1, value)

\* The start address the range check reads: mp->module.addr before version
\* 0x20112, mp->module_info.addr from it on.
StartOf(mp) ==
  IF LINUX_VERSION_CODE < QueryModuleVersion
  THEN [addr |-> mp.module.addr, written |-> TRUE]
  ELSE mp.module_info

\* value >= start && value <= start + size * 4096: what the condition may
\* evaluate to.  With an indeterminate start it may be either.
InExtent(mp, value) ==
  IF StartOf(mp).written
  THEN { /\ value >= StartOf(mp).addr
         /\ value <= StartOf(mp).addr + mp.module.size * PageSize }
  ELSE BOOLEAN

\* What depends on the start address is indeterminate when the start is.
FromStart(mp, field) == IF StartOf(mp).written THEN {} ELSE { field }

\* sym->size past the last symbol: (int) start + (size * 4096) - value
TailSize(mp, value) == StartOf(mp).addr + mp.module.size * PageSize - value

\* The branch taken when the range check holds: the last symbol of a module
\* that has symbols, the module's name otherwise.
Inside(mp, value) ==
  IF mp.num_syms > 0 THEN
    LET last == IF mp.num_syms > Len(mp.sym_array) THEN Uninit
                ELSE mp.sym_array[mp.num_syms]
    IN  IF last = Uninit THEN Garbage
        ELSE Answer(last.name, TailSize(mp, value), value - last.value,
                    FromStart(mp, "size"))
  ELSE Answer(mp.name, mp.module.size * PageSize, value - StartOf(mp).addr,
              FromStart(mp, "offset"))

\* The body of the loop over the modules, for one module: the answers it
\* may give.  sym->offset and sym->size are ints and take the differences as
\* they are (negative when the address is below the symbol).
InModule(mp, value) ==
  LET nsym == ScanSyms(mp, 2, value)
  IN  IF nsym = -1 THEN { Garbage }
      ELSE IF nsym > 0 THEN
        LET last == IF nsym - 1 > Len(mp.sym_array) THEN Uninit
                    ELSE mp.sym_array[nsym - 1]
        IN  IF last = Uninit THEN { Garbage }
            ELSE { Answer(last.name, mp.sym_array[nsym].value - last.value,
                          value - last.value, {}) }
      ELSE { IF holds THEN Inside(mp, value) ELSE NextModule
             : holds \in InExtent(mp, value) }

\* The loop over the modules, from module nmod on: the first module that
\* answers decides; (char *) 0 with size and offset 0 when none does.
RECURSIVE LookupFrom(_, _, _)
LookupFrom(mods, nmod, value) ==
  IF nmod > Len(mods) THEN { Answer(NULL, 0, 0, {}) }
  ELSE UNION { IF r = NextModule THEN LookupFrom(mods, nmod + 1, value) ELSE { r }
               : r \in InModule(mods[nmod], value) }

(* ---------------------------------------------------------------------- *)
(* InitMsyms, step by step                                                *)
(* ---------------------------------------------------------------------- *)

\* A variant of Current that takes the index of mod_table for the position
\* in the kernel's list.
CurrentByIndex == kernel[tmp + 1]

\* The module InitMsyms is adding: mod_table[tmp] is the next name of the
\* buffer, so the names are taken in the order the kernel listed them.
Current == kernel[Len(kernel) - tmp]

\* What query_module answers to a buffer of cap bytes when need are wanted:
\* ENOSPC while the buffer is too small, success otherwise, or any other
\* error at any call.
QueryAnswers(cap, need) == IF cap < need THEN { "ENOSPC", "err" } ELSE { "ok", "err" }

\* One query of a grow-and-retry loop: the buffer's capacity, the bytes the
\* kernel wanted and what it answered.
Attempt(op, cap, need, result) == [op |-> op, cap |-> cap, need |-> need, result |-> result]

\* The failed steps of the build, after a step that failed (why) or did not
\* ("no").
Mark(why) == IF why = "no" THEN failed ELSE Append(failed, why)

\* return(r) from InitMsyms.
Return(r, why) ==
  /\ pc' = "idle"
  /\ ret' = r
  /\ failed' = Mark(why)

\* FreeModules frees a NULL array, or names read from unwritten slots.
FreeReadsGarbage ==
  \E nmods \in 1..num_modules :
    /\ sym_array_modules[nmods].num_syms > 0
    /\ ~WellFormed(sym_array_modules[nmods])

\* FreeModules(): the table is empty afterwards.
FreeModules ==
  /\ have_modules' = 0
  /\ sym_array_modules' = << >>
  /\ num_modules' = 0

\* InitMsyms up to its first loop: FreeModules(), modsize = 32.  Freeing
\* through a NULL array or unwritten slots is undefined: the process dies or
\* goes on.
InitMsyms ==
  /\ pc = "idle"
  /\ \E dies \in { FALSE, FreeReadsGarbage } :
       IF dies
       THEN /\ pc' = "crashed"
            /\ UNCHANGED << LINUX_VERSION_CODE, kernel, num_modules, sym_array_modules,
                            have_modules,
                            modsize, tmp, symsize, i, ret, attempts, answer, queries,
                            failed, dropped, lookup, rebuild >>
       ELSE /\ FreeModules
            /\ rebuild' = (ret = 1)
            /\ pc' = "QM_MODULES"
            /\ modsize' = ModSeed
            /\ ret' = -1
            /\ attempts' = << >>
            /\ answer' = "none"
            /\ queries' = 0
            /\ failed' = << >>
            /\ dropped' = 0
            /\ lookup' = NoLookup
            /\ UNCHANGED << LINUX_VERSION_CODE, kernel, tmp, symsize, i >>

\* A variant of NoModules that lets an empty module list through.
NoModulesBelowZero(rtn) == rtn < 0

\* if ( rtn <= 0 ): no modules
NoModules(rtn) == rtn <= 0

\* A variant of Grow that adds the seed instead of doubling.
GrowBySeed(size) == size + ModSeed

\* modsize+=modsize; symsize+=symsize
Grow(size) == size + size

\* have_modules = 1 and the loop that sorts every module's symbols, up to
\* return(1).
Finish(mods, why) ==
  \E sorted \in SortFrom(mods, 1) :
    /\ have_modules' = 1
    /\ sym_array_modules' = sorted
    /\ IF \E nmod \in 1..Len(sorted) : sorted[nmod] = Crash
       THEN /\ pc' = "crashed"
            /\ failed' = Mark(why)
            /\ UNCHANGED ret
       ELSE Return(1, why)

\* One turn of the do-while loop that queries the module list, and, once
\* the query is satisfied, the code up to the loop over the modules.
QueryModules ==
  /\ pc = "QM_MODULES"
  /\ modsize' = Grow(modsize)
  /\ \E newbuf \in BOOLEAN, result \in QueryAnswers(Grow(modsize), ListBytes(kernel)),
        mod_table \in BOOLEAN, array \in BOOLEAN :
       IF ~newbuf
       THEN /\ Return(0, "realloc")
            /\ UNCHANGED << attempts, answer, queries, tmp, sym_array_modules, have_modules >>
       ELSE /\ attempts' = Append(attempts, Attempt("QM_MODULES", Grow(modsize),
                                                    ListBytes(kernel), result))
            /\ answer' = result
            /\ queries' = queries + 1
            /\ CASE result = "err" ->
                      /\ Return(0, "QM_MODULES")
                      /\ UNCHANGED << tmp, sym_array_modules, have_modules >>
                 [] result = "ENOSPC" ->
                      UNCHANGED << pc, ret, failed, tmp, sym_array_modules,
                                   have_modules >>
                 [] OTHER ->
                      IF NoModules(Len(kernel))
                      THEN /\ Return(0, "no")
                           /\ UNCHANGED << tmp, sym_array_modules, have_modules >>
                      ELSE IF ~mod_table \/ ~array
                      THEN /\ Return(0, "malloc")
                           /\ UNCHANGED << tmp, sym_array_modules, have_modules >>
                      ELSE /\ tmp' = Len(kernel) - 1
                           /\ IF Len(kernel) - 1 >= 0
                              THEN /\ pc' = "AddModule"
                                   /\ UNCHANGED << ret, failed, sym_array_modules,
                                                   have_modules >>
                              ELSE Finish(sym_array_modules, "no")
  /\ UNCHANGED << LINUX_VERSION_CODE, kernel, num_modules, symsize, i, dropped, lookup,
                  rebuild >>

\* AddModule returned 1 with the table mods: the next turn of the loop over
\* the modules, or the rest of InitMsyms after it.
ModuleAdded(mods, why) ==
  /\ tmp' = tmp - 1
  /\ IF tmp - 1 >= 0
     THEN /\ pc' = "AddModule"
          /\ sym_array_modules' = mods
          /\ failed' = Mark(why)
          /\ UNCHANGED << have_modules, ret >>
     ELSE Finish(mods, why)

\* AddModule(mod_table[tmp]) up to its query loop: the have_modules guard,
\* the QM_INFO query, strdup of the name, the new entry of the table.
AddModule ==
  /\ pc = "AddModule"
  /\ IF have_modules # 0
     THEN /\ ModuleAdded(sym_array_modules, "no")
          /\ UNCHANGED << num_modules, symsize, attempts, answer, queries >>
     ELSE \E info \in { "ok", "err" }, name \in BOOLEAN :
            /\ queries' = queries + 1
            /\ answer' = info
            /\ IF info = "err"
               THEN /\ Return(0, "QM_INFO")
                    /\ UNCHANGED << num_modules, sym_array_modules, symsize, attempts,
                                    have_modules, tmp >>
               ELSE IF ~name
               THEN /\ Return(0, "strdup")
                    /\ UNCHANGED << num_modules, sym_array_modules, symsize, attempts,
                                    have_modules, tmp >>
               ELSE /\ sym_array_modules' = Append(sym_array_modules, NewModule(Current))
                    /\ num_modules' = num_modules + 1
                    /\ symsize' = SymSeed
                    /\ attempts' = << >>
                    /\ pc' = "QM_SYMBOLS"
                    /\ UNCHANGED << ret, failed >>
                    /\ UNCHANGED << have_modules, tmp >>
  /\ UNCHANGED << LINUX_VERSION_CODE, kernel, modsize, i, dropped, lookup, rebuild >>

\* One turn of the do-while loop that queries a module's symbols.
QuerySymbols ==
  /\ pc = "QM_SYMBOLS"
  /\ symsize' = Grow(symsize)
  /\ \E newbuf \in BOOLEAN, result \in QueryAnswers(Grow(symsize), Current.need) :
       IF ~newbuf
       THEN /\ Return(0, "realloc")
            /\ UNCHANGED << attempts, answer, queries, tmp, i, sym_array_modules,
                            have_modules >>
       ELSE /\ attempts' = Append(attempts, Attempt("QM_SYMBOLS", Grow(symsize),
                                                    Current.need, result))
            /\ answer' = result
            /\ queries' = queries + 1
            /\ CASE result = "err" ->
                      /\ Return(0, "QM_SYMBOLS")
                      /\ UNCHANGED << tmp, i, sym_array_modules, have_modules >>
                 [] result = "ENOSPC" ->
                      UNCHANGED << pc, ret, failed, tmp, i, sym_array_modules,
                                   have_modules >>
                 [] OTHER ->
                      /\ i' = 0
                      /\ IF 0 < Len(Current.syms)
                         THEN /\ pc' = "AddSymbol"
                              /\ UNCHANGED << ret, failed, tmp, sym_array_modules,
                                              have_modules >>
                         ELSE ModuleAdded(sym_array_modules, "no")
  /\ UNCHANGED << LINUX_VERSION_CODE, kernel, num_modules, modsize, dropped, lookup,
                  rebuild >>

\* What the two allocations of one AddSymbol call may do: succeed, or the
\* realloc of the array or the malloc of the name fails.
AllocOutcomes ==
  IF dropped < MaxAddSymbolFailures THEN { "ok", "realloc", "malloc" } ELSE { "ok" }

\* One turn of AddModule's loop over the symbols: AddSymbol on the last
\* module of the table, its return value dropped; after the last symbol
\* AddModule returns 1.
AddSymbol ==
  /\ pc = "AddSymbol"
  /\ \E out \in AllocOutcomes :
       LET entry == Current.syms[i + 1]
           mp == AddSymbolTo(sym_array_modules[num_modules], entry.value, entry.name, out)
           mods == [sym_array_modules EXCEPT ![num_modules] = mp]
           why == IF out = "ok" THEN "no" ELSE "AddSymbol"
       IN  /\ i' = i + 1
           /\ dropped' = IF out = "ok" THEN dropped ELSE dropped + 1
           /\ IF i + 1 < Len(Current.syms)
              THEN /\ sym_array_modules' = mods
                   /\ failed' = Mark(why)
                   /\ UNCHANGED << pc, ret, tmp, have_modules >>
              ELSE ModuleAdded(mods, why)
  /\ UNCHANGED << LINUX_VERSION_CODE, kernel, num_modules, modsize, symsize, attempts,
                  answer, queries, lookup, rebuild >>

(* ---------------------------------------------------------------------- *)
(* LookupModuleSymbol, called between two builds                          *)
(* ---------------------------------------------------------------------- *)

\* LookupModuleSymbol(value, sym): sym->size = sym->offset = 0, NULL at once
\* when num_modules is 0, the loop over the modules otherwise.  A lookup
\* that reads a NULL array or an unwritten slot is undefined: the process
\* dies, or the call returns something indeterminate.
LookupModuleSymbol ==
  /\ pc = "idle"
  /\ \E value \in Addrs :
       LET answers == IF num_modules = 0 THEN { Answer(NULL, 0, 0, {}) }
                      ELSE LookupFrom(sym_array_modules, 1, value)
       IN  \E r \in answers, dies \in BOOLEAN :
             IF dies /\ r = Garbage
             THEN /\ pc' = "crashed"
                  /\ UNCHANGED lookup
             ELSE /\ lookup' = [called |-> TRUE, value |-> value, name |-> r.name,
                                size |-> r.size, offset |-> r.offset,
                                indet |-> r.indet]
                  /\ UNCHANGED pc
  /\ UNCHANGED << LINUX_VERSION_CODE, kernel, num_modules, sym_array_modules, have_modules, modsize,
                  tmp, symsize, i, ret, attempts, answer, queries, failed, dropped,
                  rebuild >>

Next ==
  \/ InitMsyms
  \/ QueryModules
  \/ AddModule
  \/ QuerySymbols
  \/ AddSymbol
  \/ LookupModuleSymbol

Spec == Init /\ [][Next]_vars

\* The process runs on while a build is under way: every turn of the two
\* query loops is eventually taken.  When InitMsyms and LookupModuleSymbol
\* are called is up to the caller.
FairSpec == Spec /\ WF_vars(QueryModules) /\ WF_vars(QuerySymbols)

(* ---------------------------------------------------------------------- *)
(* Properties                                                             *)
(* ---------------------------------------------------------------------- *)

\* InitMsyms is not running: LookupModuleSymbol may be called.
Idle == pc = "idle"

\* The last InitMsyms returned 1: the table is a built catalog.
Built == pc = "idle" /\ ret = 1

\* The program was compiled so that the range check reads the start address
\* QM_INFO stored (mp->module.addr).
StartStored == LINUX_VERSION_CODE < QueryModuleVersion

\* The last lookup returned name, with that offset and size, none of them
\* indeterminate.
Resolved(name, offset, size) ==
  /\ lookup.indet = {}
  /\ lookup.name = name
  /\ lookup.offset = offset
  /\ lookup.size = size

\* The exclusive end of a module: base + size in pages * page size.
EndOf(mp) == mp.module.addr + mp.module.size * PageSize

\* The address lies in the module's range [base, end).
InRange(mp, a) == mp.module.addr <= a /\ a < EndOf(mp)

\* The table entry mp holds exactly what the kernel reports for module km:
\* its name, base and size, and every reported symbol once, under the name
\* "<module>:<symbol>", in ascending order of address.
CompleteModule(mp, km) ==
  /\ mp.name = km.name
  /\ mp.module.addr = km.addr
  /\ mp.module.size = km.size
  /\ mp.num_syms = Len(km.syms)
  /\ Len(mp.sym_array) = Len(km.syms)
  /\ \A k \in 1..(Len(mp.sym_array) - 1) :
       mp.sym_array[k].value <= mp.sym_array[k + 1].value
  /\ \E f \in Permutations(1..Len(km.syms)) :
       \A k \in 1..Len(km.syms) :
         /\ mp.sym_array[k].value = km.syms[f[k]].value
         /\ mp.sym_array[k].name = km.name \o ":" \o km.syms[f[k]].name

\* The table is the complete result of a build: one entry per module the
\* kernel lists, in the kernel's order, each complete.
CompleteCatalog ==
  /\ num_modules = Len(kernel)
  /\ Len(sym_array_modules) = Len(kernel)
  /\ \A nmod \in 1..Len(kernel) : CompleteModule(sym_array_modules[nmod], kernel[nmod])

\* The table is empty, as before the first build.
EmptyCatalog == num_modules = 0 /\ sym_array_modules = << >>

\* The step at which the last build gave up.
GaveUpAt == IF failed = << >> THEN "no" ELSE failed[Len(failed)]

\* Nothing failed in the current build but queries of the kernel.
OnlyQueriesFailed ==
  \A k \in 1..Len(failed) : failed[k] \in { "QM_MODULES", "QM_INFO", "QM_SYMBOLS" }

\* C1: whenever LookupModuleSymbol may be called, after builds in which
\* queries may have failed, the table it reads is the complete result of a
\* successful build or the empty table, never what a build that failed
\* part-way left behind.
C1_LookupReadsCompleteCatalog ==
  (Idle /\ OnlyQueriesFailed) => (EmptyCatalog \/ CompleteCatalog)

\* C2: in a built catalog, an address that lies in no module's range
\* [base, base + size * page size) resolves to absence (NULL); stated for
\* the program whose range check reads the start address QM_INFO stored.
C2_MissReturnsNull ==
  (/\ Built
   /\ StartStored
   /\ failed = << >>
   /\ lookup.called
   /\ \A nmod \in 1..num_modules : ~InRange(sym_array_modules[nmod], lookup.value))
  => lookup.name = NULL

\* C3: in a built catalog, for every module with at least 2 symbols,
\* wherever it sits, an address in [symbols[i], symbols[i+1]) resolves to
\* symbols[i]'s name, with the offset from symbols[i] and the distance
\* between the two symbols as size; stated for the program whose range check
\* reads the start address QM_INFO stored.
C3_BracketInAnyModule ==
  (Built /\ StartStored /\ failed = << >> /\ lookup.called)
  => \A nmod \in 1..num_modules :
       LET mp == sym_array_modules[nmod]
       IN  mp.num_syms >= 2 =>
             \A k \in 1..(mp.num_syms - 1) :
               (/\ mp.sym_array[k].value <= lookup.value
                /\ lookup.value < mp.sym_array[k + 1].value)
               => Resolved(mp.sym_array[k].name,
                           lookup.value - mp.sym_array[k].value,
                           mp.sym_array[k + 1].value - mp.sym_array[k].value)

\* C4: a build returns success only if no step of it failed and every
\* symbol the kernel reported was attached.
C4_SuccessOnlyWithoutFailure ==
  Built => (failed = << >> /\ dropped = 0 /\ CompleteCatalog)

\* A build has returned in which the module-list query succeeded and
\* reported no module, and nothing failed.
EmptyListBuilt == Idle /\ ret # -1 /\ kernel = << >> /\ failed = << >>

Reaches(nmod, a) ==
  \A before \in 1..(nmod - 1) : InModule(sym_array_modules[before], a) = { NextModule }

\* Module mp holds symbols, the last of which is sn, and the address lies in
\* [sn, end of the module).
InTail(mp, a) ==
  /\ mp.num_syms >= 1
  /\ WellFormed(mp)
  /\ mp.sym_array[mp.num_syms].value <= a
  /\ a < EndOf(mp)

\* For every module with symbols s0..sn that the lookup reaches, an address
\* in [sn, end of the module) resolved to sn's name with offset = address -
\* sn and size = end of the module - address.
TailFallback ==
  lookup.called
  => \A nmod \in 1..num_modules :
       LET mp == sym_array_modules[nmod]
       IN  (InTail(mp, lookup.value) /\ Reaches(nmod, lookup.value))
           => Resolved(mp.sym_array[mp.num_syms].name,
                       lookup.value - mp.sym_array[mp.num_syms].value,
                       EndOf(mp) - lookup.value)

\* C6: for a module of a catalog built without a failure, with symbols
\* s0..sn and reached by the lookup, an address in [sn, end of the module)
\* resolves to sn's name with offset = address - sn and size = end of the
\* module - address.
C6_TailFallback == (Built /\ failed = << >>) => TailFallback

\* The tail fallback in the program whose range check reads the start
\* address QM_INFO stored: there it holds for the table of every build that
\* returned 1.
TailFallbackWhereStartStored == (Built /\ StartStored) => TailFallback

\* C7: in a built catalog, for every module without symbols, whatever else
\* the catalog holds, an address in the module's range resolves to the bare
\* module name with offset = address - base and size = size * page size;
\* stated for the program whose range check reads the start address QM_INFO
\* stored.
C7_NoSymbolModule ==
  (Built /\ StartStored /\ failed = << >> /\ lookup.called)
  => \A nmod \in 1..num_modules :
       LET mp == sym_array_modules[nmod]
       IN  (mp.num_syms = 0 /\ InRange(mp, lookup.value))
           => Resolved(mp.name, lookup.value - mp.module.addr,
                       mp.module.size * PageSize)

\* 2 to the power k.
RECURSIVE Pow2(_)
Pow2(k) == IF k = 0 THEN 1 ELSE 2 * Pow2(k - 1)

\* The last build returned failure, and no build has run since.
Aborted == ret = 0 /\ pc \in { "idle", "crashed" }

\* The capacity a grow-and-retry loop starts from.
Seed(op) == IF op = "QM_MODULES" THEN ModSeed ELSE SymSeed

\* The latest grow-and-retry loop, as far as it has run: the k-th query
\* passed the seed doubled k times; every query but the last was answered
\* "buffer too small"; after that answer the loop is still running, unless
\* the allocation of the next buffer failed; after any other error the build
\* has returned failure, that query being its last; after success the loop
\* has ended, with a capacity of at least what the kernel wanted.
GrowthRetry ==
  /\ \A k \in 1..Len(attempts) :
       /\ attempts[k].cap = Seed(attempts[k].op) * Pow2(k)
       /\ k < Len(attempts) => (attempts[k].result = "ENOSPC" /\ attempts[k].cap < attempts[k].need)
  /\ attempts # << >> =>
       LET last == attempts[Len(attempts)]
       IN  /\ last.result = "ENOSPC" =>
                \/ pc = last.op
                \/ Aborted /\ GaveUpAt = "realloc"
           /\ last.result = "err" =>
                Aborted /\ GaveUpAt = last.op /\ answer = "err"
           /\ last.result = "ok" => (pc # last.op /\ last.cap >= last.need)
  /\ answer = "err" => Aborted

\* C8: the grow-and-retry loops double the capacity on every attempt and
\* retry as long as the kernel answers "buffer too small"; they end with the
\* query satisfied at a capacity the kernel accepts, give up only when an
\* allocation fails, and abort the build at once, with no further query, on
\* any other error.  Each loop, once entered, is left.
C8_GrowthRetry ==
  /\ []GrowthRetry
  /\ (pc = "QM_MODULES") ~> (pc # "QM_MODULES")
  /\ (pc = "QM_SYMBOLS") ~> (pc # "QM_SYMBOLS")

\* C8's case: a loop that was satisfied at its third attempt, after two
\* answers "buffer too small".
C8_Witness ==
  /\ Len(attempts) >= 3
  /\ attempts[Len(attempts)].result = "ok"
  /\ attempts[1].result = "ENOSPC"

\* The entries of a module's table are in ascending order of address and
\* are the entries the kernel reported for it, each once.
SortedPermutation(mp, km) ==
  /\ Len(mp.sym_array) = mp.num_syms
  /\ \A k \in 1..(mp.num_syms - 1) : mp.sym_array[k].value <= mp.sym_array[k + 1].value
  /\ mp.num_syms = Len(km.syms)
  /\ \E f \in Permutations(1..Len(km.syms)) :
       \A k \in 1..Len(km.syms) :
         /\ mp.sym_array[k].value = km.syms[f[k]].value
         /\ mp.sym_array[k].name = km.name \o ":" \o km.syms[f[k]].name

\* C9: after every successful build, every module's symbols are in
\* ascending order of address and are a permutation of the entries the
\* kernel reported for that module.
C9_SortedPermutation ==
  Built => \A nmod \in 1..num_modules :
             /\ nmod <= Len(kernel)
             /\ SortedPermutation(sym_array_modules[nmod], kernel[nmod])

\* Every name in the module's table is "<module>:<symbol>" for a symbol the
\* kernel reported for the module, the prefix applied once.
QualifiedOnce(mp, km) ==
  \A k \in 1..Len(mp.sym_array) :
    \E j \in 1..Len(km.syms) : mp.sym_array[k].name = km.name \o ":" \o km.syms[j].name

\* C10: in every built catalog each symbol is named "<module>:<symbol>",
\* and every build against the same kernel yields the same catalog: one
\* entry per module, with as many symbols as the kernel reported, nothing
\* left over from the build before.
C10_RebuildYieldsSameCatalog ==
  Built => /\ num_modules = Len(kernel)
           /\ \A nmod \in 1..num_modules :
                /\ sym_array_modules[nmod].name = kernel[nmod].name
                /\ QualifiedOnce(sym_array_modules[nmod], kernel[nmod])
                /\ sym_array_modules[nmod].num_syms = Len(kernel[nmod].syms)
                /\ Len(sym_array_modules[nmod].sym_array) = Len(kernel[nmod].syms)

\* The table holds one entry per module the kernel lists, under the kernel's
\* names and in the kernel's order.
InKernelOrder ==
  /\ num_modules = Len(kernel)
  /\ Len(sym_array_modules) = Len(kernel)
  /\ \A nmod \in 1..Len(kernel) : sym_array_modules[nmod].name = kernel[nmod].name
  /\ \A m, n \in 1..Len(sym_array_modules) :
       sym_array_modules[m].name = sym_array_modules[n].name => m = n

\* What the last lookup returned, as an answer of the loop over the modules.
Returned == Answer(lookup.name, lookup.size, lookup.offset, lookup.indet)

\* The last lookup returned what the first module of the table that answers
\* the address answers: some module gives the answer returned and every
\* module before it passes the address on; NULL with size and offset 0 when
\* every module passes it on.
FirstMatchWins ==
  LET passes(nmod) == NextModule \in InModule(sym_array_modules[nmod], lookup.value)
  IN  \/ /\ Returned = Answer(NULL, 0, 0, {})
         /\ \A nmod \in 1..num_modules : passes(nmod)
      \/ \E nmod \in 1..num_modules :
           /\ Returned # NextModule
           /\ Returned \in InModule(sym_array_modules[nmod], lookup.value)
           /\ \A before \in 1..(nmod - 1) : passes(before)

\* C11: after every build that returned 1, rebuilds included, the table
\* holds exactly one entry per module name the kernel listed, in the order
\* the kernel listed them, and a lookup returns the answer of the first
\* module, in that order, that answers the address.
C11_KernelOrderFirstMatch ==
  Built => (InKernelOrder /\ (lookup.called => FirstMatchWins))

\* C11's case: a rebuild after a build that returned 1, of two modules with
\* nothing failed, and a lookup of an address of the second module that the
\* first module passes on and the second answers.
C11_Witness ==
  /\ Built
  /\ rebuild
  /\ failed = << >>
  /\ num_modules = 2
  /\ lookup.called
  /\ lookup.name # NULL
  /\ InRange(sym_array_modules[2], lookup.value)
  /\ InModule(sym_array_modules[1], lookup.value) = { NextModule }
  /\ Returned \in InModule(sym_array_modules[2], lookup.value)

====
